---- MODULE Spec2Model ----
(***************************************************************************)
(* Annotation state engine of src/annotate.py (class AnnotationTool):      *)
(* the class/attribute/method/relationship model, the span index           *)
(* (highlighted_spans), the tagging state machine, the snapshot undo/redo  *)
(* history, the JSON sync-back and the pre-annotation structuring loop.    *)
(*                                                                         *)
(* Every handler of the tool is an operator over a record of the object's  *)
(* fields (St) that returns the record after the handler has run; the      *)
(* action of a handler commits that record.  The field `out` of the record *)
(* names the path the handler took (its status message or warning); it is  *)
(* what the handler reports, not a field of the object.                    *)
(* Rendering (colours, buttons, the text of the results panel) is left     *)
(* out: no handler reads it back.                                          *)
(***************************************************************************)
EXTENDS Integers, Sequences, FiniteSets, TLC

VARIABLES
    annotations,                    \* self.annotations: [classes, relationships]
    highlighted_spans,              \* self.highlighted_spans, in insertion order
    relationship_mode,              \* self.relationship_mode
    current_relationship,           \* self.current_relationship
    relationship_from_class_span,   \* self.relationship_from_class_span
    relationship_to_class_span,     \* self.relationship_to_class_span
    current_tag,                    \* self.current_tag
    selected_context_class_span,    \* self.selected_context_class_span
    undo_stack,                     \* self.undo_stack
    redo_stack                      \* self.redo_stack

vars == <<annotations, highlighted_spans, relationship_mode, current_relationship,
          relationship_from_class_span, relationship_to_class_span, current_tag,
          selected_context_class_span, undo_stack, redo_stack>>

----------------------------------------------------------------------------
(* Bounds of the model *)

\* most snapshots (undo stack plus redo stack) a handler may leave behind
MaxUndo == 2
\* longest candidate sequence handed to the pre-annotation loop
MaxCands == 2

----------------------------------------------------------------------------
(* Values *)

\* a Python tuple (start, end)
Tuple(a, b) == [k |-> "tuple", s |-> a, e |-> b]
\* a JSON array [start, end]
List(a, b) == [k |-> "list", s |-> a, e |-> b]
\* Python None where a span is expected
None == [k |-> "none", s |-> 0, e |-> 0]
\* absent "class_name" key of a span index entry
NoName == "-"
\* current_tag = None
NoTag == "None"

EmptyAnnotations == [classes |-> <<>>, relationships |-> <<>>]

\* (word, start, end) triples the text widget can emit.  The text is editable,
\* so the word under the cursor may be "User" at (0,4) and later "Users" at (0,5).
Words ==
    { [word |-> "User",  start |-> 0, end |-> 4],
      [word |-> "Users", start |-> 0, end |-> 5],
      [word |-> "Book",  start |-> 5, end |-> 9] }

Tags == {"CLASS", "ATTRIBUTE", "METHOD"}
RelTypes == {"association", "generalization", "composition"}

SeqToSet(q) == { q[i] : i \in 1..Len(q) }

RECURSIVE SeqFilterOut(_, _)
\* q without its elements at the indices in `drop`
SeqFilterOut(q, drop) ==
    IF q = <<>> THEN <<>>
    ELSE LET n == Len(q)
             front == SeqFilterOut(SubSeq(q, 1, n - 1), drop)
         IN  IF n \in drop THEN front ELSE Append(front, q[n])

----------------------------------------------------------------------------
(* The object's fields as one record *)

St ==
    [ annotations |-> annotations,
      highlighted_spans |-> highlighted_spans,
      relationship_mode |-> relationship_mode,
      current_relationship |-> current_relationship,
      relationship_from_class_span |-> relationship_from_class_span,
      relationship_to_class_span |-> relationship_to_class_span,
      current_tag |-> current_tag,
      selected_context_class_span |-> selected_context_class_span,
      undo_stack |-> undo_stack,
      redo_stack |-> redo_stack,
      out |-> "" ]

\* the path a handler took
Out(st, label) == [st EXCEPT !.out = label]

----------------------------------------------------------------------------
(* Span index: a dict keyed by (start, end), kept in insertion order *)

NoEntity == [span |-> None, text |-> "", tag |-> NoTag, class_name |-> NoName]

\* the position of key `span` in the dict, 0 when absent
KeyIndex(hl, span) ==
    IF \E i \in 1..Len(hl) : hl[i].span = span
    THEN CHOOSE i \in 1..Len(hl) : hl[i].span = span
    ELSE 0

\* dict.get(span)
DictGet(hl, span) ==
    IF KeyIndex(hl, span) = 0 THEN NoEntity ELSE hl[KeyIndex(hl, span)]

\* d1 == d2 on dicts: the same keys with the same values, in any order
DictEq(d1, d2) == SeqToSet(d1) = SeqToSet(d2)

\* the sort key of _get_highlighted_entity_at_pos: item[0][1] - item[0][0]
SpanLength(entry) == entry.span.e - entry.span.s

\* sorted(..., key=SpanLength, reverse=True) puts a before b: the longer span
\* first; the sort is stable, so equal lengths keep their insertion order
SortsBefore(a, i, b, j) ==
    \/ SpanLength(a) > SpanLength(b)
    \/ SpanLength(a) = SpanLength(b) /\ i <= j

RECURSIVE SortedItems(_)
SortedItems(hl) ==
    IF hl = <<>> THEN <<>>
    ELSE LET i == CHOOSE i \in 1..Len(hl) :
                    \A j \in 1..Len(hl) : SortsBefore(hl[i], i, hl[j], j)
         IN  <<hl[i]>> \o SortedItems(SeqFilterOut(hl, {i}))

\* _get_highlighted_entity_at_pos: the first entry of the sorted items whose
\* span contains pos
_get_highlighted_entity_at_pos(hl, pos) ==
    LET items == SortedItems(hl)
        hits == { i \in 1..Len(items) : items[i].span.s <= pos /\ pos < items[i].span.e }
    IN  IF hits = {} THEN NoEntity
        ELSE items[CHOOSE i \in hits : \A j \in hits : i <= j]

\* highlight_word: highlighted_spans[(start, end)] = span_data
highlight_word(hl, word, start, end, tag_type, class_context_name) ==
    LET span_data == [span |-> Tuple(start, end), text |-> word, tag |-> tag_type,
                      class_name |-> IF class_context_name # NoName
                                        /\ tag_type \in {"ATTRIBUTE", "METHOD"}
                                     THEN class_context_name ELSE NoName]
        i == KeyIndex(hl, Tuple(start, end))
    IN  IF i = 0 THEN Append(hl, span_data) ELSE [hl EXCEPT ![i] = span_data]

----------------------------------------------------------------------------
(* Annotation model lookups *)

\* _get_class_by_span: the index of the first class whose span equals
\* span_tuple; 0 for None
_get_class_by_span(ann, span_tuple) ==
    IF span_tuple = None THEN 0
    ELSE LET hits == { i \in 1..Len(ann.classes) : ann.classes[i].span = span_tuple }
         IN  IF hits = {} THEN 0 ELSE CHOOSE i \in hits : \A j \in hits : i <= j

----------------------------------------------------------------------------
(* History *)

Snapshot(st) ==
    [ annotations |-> st.annotations,
      highlighted_spans |-> st.highlighted_spans,
      selected_context_class_span |-> st.selected_context_class_span ]

\* the comparison of push_state_to_undo_stack: top of stack against live state
SameAsTop(st) ==
    /\ st.undo_stack # <<>>
    /\ LET top == st.undo_stack[Len(st.undo_stack)]
       IN  /\ top.annotations = st.annotations
           /\ DictEq(top.highlighted_spans, st.highlighted_spans)
           /\ top.selected_context_class_span = st.selected_context_class_span

push_state_to_undo_stack(st, initial_state) ==
    IF ~initial_state /\ SameAsTop(st) THEN st
    ELSE [st EXCEPT !.undo_stack = Append(st.undo_stack, Snapshot(st)),
                    !.redo_stack = IF initial_state THEN st.redo_stack ELSE <<>>]

\* the condition under which pop_state_from_undo_stack pops
PopAllowed(undo, redo) ==
    Len(undo) > 1 \/ (Len(undo) = 1 /\ redo = <<>>)

pop_state_from_undo_stack(st) ==
    IF st.undo_stack # <<>> /\ PopAllowed(st.undo_stack, st.redo_stack)
    THEN [st EXCEPT !.undo_stack = SubSeq(st.undo_stack, 1, Len(st.undo_stack) - 1)]
    ELSE st

----------------------------------------------------------------------------
(* Rebuilding the span index from the model *)

\* `span and len(span) == 2`
ValidSpan(span) == span.k # "none"

RECURSIVE HighlightMembers(_, _, _, _)
\* the loops over cls["attributes"] and cls["methods"]
HighlightMembers(hl, members, tag_type, class_name) ==
    IF members = <<>> THEN hl
    ELSE LET m == Head(members)
             hl1 == IF ValidSpan(m.span)
                    THEN highlight_word(hl, m.name, m.span.s, m.span.e, tag_type, class_name)
                    ELSE hl
         IN  HighlightMembers(hl1, Tail(members), tag_type, class_name)

RECURSIVE HighlightClasses(_, _)
\* the loop over annotations["classes"]
HighlightClasses(hl, classes) ==
    IF classes = <<>> THEN hl
    ELSE LET cls == Head(classes)
             hl1 == IF ValidSpan(cls.span)
                    THEN highlight_word(hl, cls.name, cls.span.s, cls.span.e, "CLASS", NoName)
                    ELSE hl
             hl2 == HighlightMembers(hl1, cls.attributes, "ATTRIBUTE", cls.name)
             hl3 == HighlightMembers(hl2, cls.methods, "METHOD", cls.name)
         IN  HighlightClasses(hl3, Tail(classes))

\* the context class survives a rebuild only if it is still a class of the
\* model and still indexed as CLASS
ContextStillValid(ann, hl, ctx) ==
    /\ _get_class_by_span(ann, ctx) # 0
    /\ KeyIndex(hl, ctx) # 0
    /\ DictGet(hl, ctx).tag = "CLASS"

rebuild_highlights_from_annotations(st) ==
    LET hl == HighlightClasses(<<>>, st.annotations.classes)
        ctx == st.selected_context_class_span
    IN  [st EXCEPT !.highlighted_spans = hl,
                   !.selected_context_class_span =
                       IF ctx # None /\ ~ContextStillValid(st.annotations, hl, ctx)
                       THEN None ELSE ctx]

----------------------------------------------------------------------------
(* Mode selection *)

clear_context_class_selection(st) ==
    IF st.selected_context_class_span # None
    THEN [st EXCEPT !.selected_context_class_span = None]
    ELSE st

\* set_tag_mode that drops the context class whatever the tag
set_tag_mode_drops_context(st, tag) ==
    LET s1 == push_state_to_undo_stack(st, FALSE)
        s2 == [s1 EXCEPT !.current_tag = tag,
                         !.relationship_mode = FALSE,
                         !.relationship_from_class_span = None]
    IN  Out(clear_context_class_selection(s2), "tag_selected")

\* set_tag_mode that leaves the relationship mode and its from-slot alone
set_tag_mode_keeps_relationship_mode(st, tag) ==
    LET s1 == push_state_to_undo_stack(st, FALSE)
        s2 == [s1 EXCEPT !.current_tag = tag]
    IN  IF s2.selected_context_class_span # None /\ tag \in {"ATTRIBUTE", "METHOD"}
        THEN Out(s2, "tag_selected_with_context")
        ELSE Out(clear_context_class_selection(s2), "tag_selected")

set_tag_mode(st, tag) ==
    LET s1 == push_state_to_undo_stack(st, FALSE)
        s2 == [s1 EXCEPT !.current_tag = tag,
                         !.relationship_mode = FALSE,
                         !.relationship_from_class_span = None]
    IN  IF s2.selected_context_class_span # None /\ tag \in {"ATTRIBUTE", "METHOD"}
        THEN Out(s2, "tag_selected_with_context")
        ELSE Out(clear_context_class_selection(s2), "tag_selected")

set_relationship_mode(st, relationship_type) ==
    LET s1 == push_state_to_undo_stack(st, FALSE)
        s2 == [s1 EXCEPT !.relationship_mode = TRUE,
                         !.current_relationship = relationship_type,
                         !.current_tag = NoTag,
                         !.relationship_from_class_span = None]
    IN  Out(clear_context_class_selection(s2), "relationship_selected")

----------------------------------------------------------------------------
(* Model mutation *)

NewClass(word, span) ==
    [name |-> word, span |-> span, attributes |-> <<>>, methods |-> <<>>]
NewAttribute(word, span) == [name |-> word, span |-> span, type |-> "String"]
NewMethod(word, span) == [name |-> word, span |-> span, parameters |-> <<>>]

HasSpan(members, span) == \E i \in 1..Len(members) : members[i].span = span

\* the guard of add_entity on the span index: 0 = the span is free,
\* 1 = it holds the same tag and text, 2 = it holds something else
SpanConflict(hl, entity_span, word, tag_type) ==
    IF KeyIndex(hl, entity_span) = 0 THEN 0
    ELSE LET existing_tag_info == DictGet(hl, entity_span)
         IN  IF existing_tag_info.tag = tag_type /\ existing_tag_info.text = word
             THEN 1 ELSE 2

\* add_entity without its guards: no look at the span index, no look for an
\* entity already at the span
add_entity_always_appends(st, word, start, end, tag_type) ==
    LET entity_span == Tuple(start, end)
        ann == st.annotations
        p == _get_class_by_span(ann, st.selected_context_class_span)
    IN  IF tag_type = "CLASS" THEN
            [st EXCEPT
                !.annotations.classes = Append(ann.classes, NewClass(word, entity_span)),
                !.highlighted_spans =
                    highlight_word(st.highlighted_spans, word, start, end, "CLASS", NoName),
                !.out = "class_added"]
        ELSE IF p = 0 THEN Out(pop_state_from_undo_stack(st), "context_not_found")
        ELSE IF tag_type = "ATTRIBUTE" THEN
            [st EXCEPT
                !.annotations.classes[p].attributes =
                    Append(ann.classes[p].attributes, NewAttribute(word, entity_span)),
                !.highlighted_spans =
                    highlight_word(st.highlighted_spans, word, start, end,
                                   "ATTRIBUTE", ann.classes[p].name),
                !.out = "attribute_added"]
        ELSE
            [st EXCEPT
                !.annotations.classes[p].methods =
                    Append(ann.classes[p].methods, NewMethod(word, entity_span)),
                !.highlighted_spans =
                    highlight_word(st.highlighted_spans, word, start, end,
                                   "METHOD", ann.classes[p].name),
                !.out = "method_added"]

add_entity(st, word, start, end, tag_type) ==
    LET entity_span == Tuple(start, end)
        ann == st.annotations
        conflict == SpanConflict(st.highlighted_spans, entity_span, word, tag_type)
        p == _get_class_by_span(ann, st.selected_context_class_span)
    IN  IF conflict = 1 THEN Out(st, "same_tag_noop")
        ELSE IF conflict = 2 THEN Out(pop_state_from_undo_stack(st), "annotation_exists")
        ELSE IF tag_type = "CLASS" THEN
            IF HasSpan(ann.classes, entity_span) THEN Out(st, "class_exists_noop")
            ELSE [st EXCEPT
                    !.annotations.classes = Append(ann.classes, NewClass(word, entity_span)),
                    !.highlighted_spans =
                        highlight_word(st.highlighted_spans, word, start, end, "CLASS", NoName),
                    !.out = "class_added"]
        ELSE IF st.selected_context_class_span = None
            THEN Out(pop_state_from_undo_stack(st), "no_context")
        ELSE IF p = 0
            THEN Out(pop_state_from_undo_stack(st), "context_not_found")
        ELSE IF tag_type = "ATTRIBUTE" THEN
            IF HasSpan(ann.classes[p].attributes, entity_span)
            THEN Out(st, "attribute_exists_noop")
            ELSE [st EXCEPT
                    !.annotations.classes[p].attributes =
                        Append(ann.classes[p].attributes, NewAttribute(word, entity_span)),
                    !.highlighted_spans =
                        highlight_word(st.highlighted_spans, word, start, end,
                                       "ATTRIBUTE", ann.classes[p].name),
                    !.out = "attribute_added"]
        ELSE
            IF HasSpan(ann.classes[p].methods, entity_span)
            THEN Out(st, "method_exists_noop")
            ELSE [st EXCEPT
                    !.annotations.classes[p].methods =
                        Append(ann.classes[p].methods, NewMethod(word, entity_span)),
                    !.highlighted_spans =
                        highlight_word(st.highlighted_spans, word, start, end,
                                       "METHOD", ann.classes[p].name),
                    !.out = "method_added"]

NewRelationship(from_class_name, to_class_name, rel_type, from_span, to_span) ==
    [from_class |-> from_class_name, to_class |-> to_class_name, type |-> rel_type,
     from_span |-> from_span, to_span |-> to_span]

\* add_relationship without the test for an identical triple
add_relationship_always_appends(st, from_class_name, to_class_name, rel_type, from_span, to_span) ==
    [st EXCEPT
        !.annotations.relationships =
            Append(@, NewRelationship(from_class_name, to_class_name,
                                      rel_type, from_span, to_span)),
        !.out = "relationship_added"]

add_relationship(st, from_class_name, to_class_name, rel_type, from_span, to_span) ==
    LET rels == st.annotations.relationships
    IN  IF \E i \in 1..Len(rels) : /\ rels[i].from_span = from_span
                                   /\ rels[i].to_span = to_span
                                   /\ rels[i].type = rel_type
        THEN Out(st, "relationship_exists")
        ELSE [st EXCEPT
                !.annotations.relationships =
                    Append(rels, NewRelationship(from_class_name, to_class_name,
                                                 rel_type, from_span, to_span)),
                !.out = "relationship_added"]

----------------------------------------------------------------------------
(* Word click *)

\* the relationship branch of handle_word_selection, after the snapshot
\* RelationshipClick without the test for a second click on the from-class
RelationshipClick_allows_self(s1, hit) ==
    IF hit = NoEntity \/ hit.tag # "CLASS"
    THEN Out(pop_state_from_undo_stack(s1), "not_a_class")
    ELSE LET class_span == hit.span
         IN  IF s1.relationship_from_class_span = None
             THEN Out([s1 EXCEPT !.relationship_from_class_span = class_span],
                      IF _get_class_by_span(s1.annotations, class_span) = 0
                      THEN "from_lookup_error" ELSE "from_selected")
             ELSE LET s2 == [s1 EXCEPT !.relationship_to_class_span = class_span]
                      f == _get_class_by_span(s2.annotations, s2.relationship_from_class_span)
                      g == _get_class_by_span(s2.annotations, s2.relationship_to_class_span)
                  IN  IF f = 0 \/ g = 0
                      THEN Out(pop_state_from_undo_stack(s2), "class_objects_missing")
                      ELSE LET s3 == add_relationship(s2,
                                         s2.annotations.classes[f].name,
                                         s2.annotations.classes[g].name,
                                         s2.current_relationship,
                                         s2.relationship_from_class_span,
                                         s2.relationship_to_class_span)
                           IN  [s3 EXCEPT !.relationship_from_class_span = None,
                                          !.relationship_to_class_span = None]

RelationshipClick(s1, hit) ==
    IF hit = NoEntity \/ hit.tag # "CLASS"
    THEN Out(pop_state_from_undo_stack(s1), "not_a_class")
    ELSE LET class_span == hit.span
         IN  IF s1.relationship_from_class_span = None
             THEN \* _get_class_by_span(class_span)["name"] raises on None
                  Out([s1 EXCEPT !.relationship_from_class_span = class_span],
                      IF _get_class_by_span(s1.annotations, class_span) = 0
                      THEN "from_lookup_error" ELSE "from_selected")
             ELSE IF class_span = s1.relationship_from_class_span
             THEN Out(pop_state_from_undo_stack(s1), "self_relationship")
             ELSE LET s2 == [s1 EXCEPT !.relationship_to_class_span = class_span]
                      f == _get_class_by_span(s2.annotations, s2.relationship_from_class_span)
                      g == _get_class_by_span(s2.annotations, s2.relationship_to_class_span)
                  IN  IF f = 0 \/ g = 0
                      THEN Out(pop_state_from_undo_stack(s2), "class_objects_missing")
                      ELSE LET s3 == add_relationship(s2,
                                         s2.annotations.classes[f].name,
                                         s2.annotations.classes[g].name,
                                         s2.current_relationship,
                                         s2.relationship_from_class_span,
                                         s2.relationship_to_class_span)
                           IN  [s3 EXCEPT !.relationship_from_class_span = None,
                                          !.relationship_to_class_span = None]

\* handle_word_selection without the test for a context class in the entity
\* branch: the click goes straight to add_entity
handle_word_selection_unguarded(st, word, start, end) ==
    LET s1 == push_state_to_undo_stack(st, FALSE)
        hit == _get_highlighted_entity_at_pos(s1.highlighted_spans, start)
    IN  IF hit.tag = "CLASS" /\ s1.current_tag = NoTag /\ ~s1.relationship_mode
        THEN Out([clear_context_class_selection(s1)
                     EXCEPT !.selected_context_class_span = hit.span],
                 "context_selected")
        ELSE IF s1.current_tag # NoTag /\ ~s1.relationship_mode
        THEN add_entity(s1, word, start, end, s1.current_tag)
        ELSE IF s1.relationship_mode
        THEN RelationshipClick(s1, hit)
        ELSE Out(pop_state_from_undo_stack(s1), "idle_noop")

handle_word_selection(st, word, start, end) ==
    LET s1 == push_state_to_undo_stack(st, FALSE)
        hit == _get_highlighted_entity_at_pos(s1.highlighted_spans, start)
    IN  IF hit.tag = "CLASS" /\ s1.current_tag = NoTag /\ ~s1.relationship_mode
        THEN Out([clear_context_class_selection(s1)
                     EXCEPT !.selected_context_class_span = hit.span],
                 "context_selected")
        ELSE IF s1.current_tag # NoTag /\ ~s1.relationship_mode
        THEN IF s1.current_tag \in {"ATTRIBUTE", "METHOD"}
                /\ s1.selected_context_class_span = None
             THEN Out(pop_state_from_undo_stack([s1 EXCEPT !.current_tag = NoTag]),
                      "context_needed")
             ELSE add_entity(s1, word, start, end, s1.current_tag)
        ELSE IF s1.relationship_mode
        THEN RelationshipClick(s1, hit)
        ELSE Out(pop_state_from_undo_stack(s1), "idle_noop")

----------------------------------------------------------------------------
(* Undo and redo *)

\* _restore_state that leaves the tag mode, the relationship mode and the
\* from-slot as they are
_restore_state_keeps_mode(st, state) ==
    LET s1 == [st EXCEPT !.annotations = state.annotations,
                         !.highlighted_spans = state.highlighted_spans,
                         !.selected_context_class_span = state.selected_context_class_span]
    IN  rebuild_highlights_from_annotations(s1)

_restore_state(st, state) ==
    LET s1 == [st EXCEPT !.annotations = state.annotations,
                         !.highlighted_spans = state.highlighted_spans,
                         !.selected_context_class_span = state.selected_context_class_span]
        s2 == rebuild_highlights_from_annotations(s1)
    IN  [s2 EXCEPT !.current_tag = NoTag,
                   !.relationship_mode = FALSE,
                   !.relationship_from_class_span = None]

\* undo_annotation that, with one snapshot left, restores that snapshot
undo_annotation_to_baseline(st) ==
    IF Len(st.undo_stack) > 1
    THEN LET n == Len(st.undo_stack)
             current_state_for_redo == st.undo_stack[n]
             s1 == [st EXCEPT !.undo_stack = SubSeq(st.undo_stack, 1, n - 1),
                              !.redo_stack = Append(st.redo_stack, current_state_for_redo)]
         IN  Out(_restore_state(s1, s1.undo_stack[n - 1]), "undo_successful")
    ELSE IF Len(st.undo_stack) = 1
    THEN Out(_restore_state(st, st.undo_stack[1]), "undo_successful")
    ELSE Out(st, "nothing_to_undo")

undo_annotation(st) ==
    IF Len(st.undo_stack) > 1
    THEN LET n == Len(st.undo_stack)
             current_state_for_redo == st.undo_stack[n]
             s1 == [st EXCEPT !.undo_stack = SubSeq(st.undo_stack, 1, n - 1),
                              !.redo_stack = Append(st.redo_stack, current_state_for_redo)]
         IN  Out(_restore_state(s1, s1.undo_stack[n - 1]), "undo_successful")
    ELSE Out(st, "nothing_to_undo")

redo_annotation(st) ==
    IF st.redo_stack # <<>>
    THEN LET n == Len(st.redo_stack)
             state_to_restore == st.redo_stack[n]
             s1 == [st EXCEPT !.redo_stack = SubSeq(st.redo_stack, 1, n - 1),
                              !.undo_stack = Append(st.undo_stack, state_to_restore)]
         IN  Out(_restore_state(s1, state_to_restore), "redo_successful")
    ELSE Out(st, "nothing_to_redo")

----------------------------------------------------------------------------
(* Clearing and loading *)

\* the fields clear_annotations and clear_all_internal reset
ResetAnnotations(st) ==
    [st EXCEPT !.annotations = EmptyAnnotations,
               !.highlighted_spans = <<>>,
               !.current_tag = NoTag,
               !.relationship_mode = FALSE,
               !.current_relationship = "",
               !.relationship_from_class_span = None,
               !.selected_context_class_span = None]

clear_annotations(st, push_undo) ==
    LET s1 == IF push_undo THEN push_state_to_undo_stack(st, FALSE) ELSE st
    IN  Out(ResetAnnotations(s1), "annotations_cleared")

clear_all_internal(st, for_load) ==
    LET s1 == ResetAnnotations(st)
    IN  IF for_load THEN s1
        ELSE Out(push_state_to_undo_stack(
                     [s1 EXCEPT !.undo_stack = <<>>, !.redo_stack = <<>>], TRUE),
                 "all_cleared")

\* load_text with a file chosen; read_ok = FALSE is the except branch
load_text(st, read_ok) ==
    LET s1 == clear_all_internal(st, TRUE)
    IN  IF read_ok
        THEN Out(push_state_to_undo_stack(s1, TRUE), "file_loaded")
        ELSE Out(push_state_to_undo_stack(clear_all_internal(s1, TRUE), TRUE),
                 "load_failed")

----------------------------------------------------------------------------
(* JSON sync-back *)

\* the sync-back without the conversion of arrays to tuples
ParseSpan_keeps_list(span) == span

\* tuple(span) where the value is a list
ParseSpan(span) == IF span.k = "list" THEN Tuple(span.s, span.e) ELSE span

\* list(span) of update_results
SerializeSpan(span) == IF span.k = "tuple" THEN List(span.s, span.e) ELSE span

\* the span conversion of either direction: to "tuple" on the way in, to
\* "list" on the way out
ConvertSpan(span, to) == IF to = "tuple" THEN ParseSpan(span) ELSE SerializeSpan(span)

MapSpans(members, to) ==
    [i \in 1..Len(members) |->
        [members[i] EXCEPT !.span = ConvertSpan(members[i].span, to)]]

ConvertClasses(classes, to) ==
    [i \in 1..Len(classes) |->
        [classes[i] EXCEPT !.span = ConvertSpan(classes[i].span, to),
                           !.attributes = MapSpans(classes[i].attributes, to),
                           !.methods = MapSpans(classes[i].methods, to)]]

ConvertRelationships(rels, to) ==
    [i \in 1..Len(rels) |->
        [rels[i] EXCEPT !.from_span = ConvertSpan(rels[i].from_span, to),
                        !.to_span = ConvertSpan(rels[i].to_span, to)]]

\* the conversion loops of handle_json_text_change
ParseAnnotations(data) ==
    [classes |-> ConvertClasses(data.classes, "tuple"),
     relationships |-> ConvertRelationships(data.relationships, "tuple")]

\* the conversion loops of update_results
SerializeAnnotations(ann) ==
    [classes |-> ConvertClasses(ann.classes, "list"),
     relationships |-> ConvertRelationships(ann.relationships, "list")]

\* what json.loads and the structure test make of the panel's text
JsonDoc(shape, classes, relationships) ==
    [shape |-> shape, classes |-> classes, relationships |-> relationships]

\* handle_json_text_change that takes the snapshot before it looks at the text
handle_json_text_change_snapshot_first(st, doc) ==
    LET s1 == push_state_to_undo_stack(st, FALSE)
    IN  IF doc.shape = "blank" THEN Out(s1, "json_blank")
        ELSE IF doc.shape = "malformed" THEN Out(s1, "json_invalid")
        ELSE IF doc.shape # "model" THEN Out(s1, "json_invalid_structure")
        ELSE LET s2 == [s1 EXCEPT !.annotations = ParseAnnotations(doc)]
             IN  Out(rebuild_highlights_from_annotations(s2), "json_synced")

handle_json_text_change(st, doc) ==
    IF doc.shape = "blank" THEN Out(st, "json_blank")
    ELSE IF doc.shape = "malformed" THEN Out(st, "json_invalid")
    ELSE IF doc.shape # "model" THEN Out(st, "json_invalid_structure")
    ELSE LET s1 == push_state_to_undo_stack(st, FALSE)
             s2 == [s1 EXCEPT !.annotations = ParseAnnotations(doc)]
         IN  Out(rebuild_highlights_from_annotations(s2), "json_synced")

----------------------------------------------------------------------------
(* Pre-annotation *)

Max(a, b) == IF a > b THEN a ELSE b
Min(a, b) == IF a < b THEN a ELSE b

\* the structuring loop without the overlap test: only an identical span is
\* skipped
IsOverlapping_never(entity_start, entity_end, newly_added_spans) == FALSE

\* is_overlapping of the structuring loop
IsOverlapping(entity_start, entity_end, newly_added_spans) ==
    \E es \in newly_added_spans : Max(entity_start, es.s) < Min(entity_end, es.e)

HasNameAndSpan(members, name, span) ==
    \E i \in 1..Len(members) : members[i].name = name /\ members[i].span = span

\* the loop body with an owner that, once set, stays: a later class does not
\* become current_class_obj
StructureEntity_keeps_first_owner(acc, entity) ==
    LET entity_span == Tuple(entity.start, entity.end)
        ann == acc.annotations
        cur == acc.current_class_obj
    IN  IF entity_span \in acc.newly_added_spans THEN acc
        ELSE IF IsOverlapping(entity.start, entity.end, acc.newly_added_spans) THEN acc
        ELSE IF entity.label = "CLASS" THEN
            IF HasNameAndSpan(ann.classes, entity.text, entity_span) THEN acc
            ELSE [annotations |-> [ann EXCEPT !.classes =
                                      Append(@, NewClass(entity.text, entity_span))],
                  current_class_obj |-> IF cur = 0 THEN Len(ann.classes) + 1 ELSE cur,
                  newly_added_spans |-> acc.newly_added_spans \cup {entity_span}]
        ELSE IF entity.label = "ATTRIBUTE" /\ cur # 0 THEN
            IF HasNameAndSpan(ann.classes[cur].attributes, entity.text, entity_span) THEN acc
            ELSE [acc EXCEPT
                    !.annotations.classes[cur].attributes =
                        Append(@, NewAttribute(entity.text, entity_span)),
                    !.newly_added_spans = @ \cup {entity_span}]
        ELSE IF entity.label = "METHOD" /\ cur # 0 THEN
            IF HasNameAndSpan(ann.classes[cur].methods, entity.text, entity_span) THEN acc
            ELSE [acc EXCEPT
                    !.annotations.classes[cur].methods =
                        Append(@, NewMethod(entity.text, entity_span)),
                    !.newly_added_spans = @ \cup {entity_span}]
        ELSE acc

\* one pass of the loop body; acc.current_class_obj is the index of the class
\* that current_class_obj refers to, 0 for None
StructureEntity(acc, entity) ==
    LET entity_span == Tuple(entity.start, entity.end)
        ann == acc.annotations
        cur == acc.current_class_obj
    IN  IF entity_span \in acc.newly_added_spans THEN acc
        ELSE IF IsOverlapping(entity.start, entity.end, acc.newly_added_spans) THEN acc
        ELSE IF entity.label = "CLASS" THEN
            IF HasNameAndSpan(ann.classes, entity.text, entity_span) THEN acc
            ELSE [annotations |-> [ann EXCEPT !.classes =
                                      Append(@, NewClass(entity.text, entity_span))],
                  current_class_obj |-> Len(ann.classes) + 1,
                  newly_added_spans |-> acc.newly_added_spans \cup {entity_span}]
        ELSE IF entity.label = "ATTRIBUTE" /\ cur # 0 THEN
            IF HasNameAndSpan(ann.classes[cur].attributes, entity.text, entity_span) THEN acc
            ELSE [acc EXCEPT
                    !.annotations.classes[cur].attributes =
                        Append(@, NewAttribute(entity.text, entity_span)),
                    !.newly_added_spans = @ \cup {entity_span}]
        ELSE IF entity.label = "METHOD" /\ cur # 0 THEN
            IF HasNameAndSpan(ann.classes[cur].methods, entity.text, entity_span) THEN acc
            ELSE [acc EXCEPT
                    !.annotations.classes[cur].methods =
                        Append(@, NewMethod(entity.text, entity_span)),
                    !.newly_added_spans = @ \cup {entity_span}]
        ELSE acc

RECURSIVE StructureLoop(_, _, _)
\* the first n passes of `for i, entity in enumerate(identified_entities)`
StructureLoop(acc, identified_entities, n) ==
    IF n = 0 THEN acc
    ELSE StructureEntity(StructureLoop(acc, identified_entities, n - 1),
                         identified_entities[n])

\* the except branch of run_preannotation_pipeline
PreannotationExcept(st) ==
    IF /\ Len(st.undo_stack) > 1
       /\ st.undo_stack[Len(st.undo_stack)].annotations # st.annotations
    THEN LET s1 == undo_annotation(st)
         IN  Out([s1 EXCEPT !.redo_stack = SubSeq(@, 1, Len(@) - 1)],
                 "preannotation_failed_reverted")
    ELSE Out(st, "preannotation_failed")

\* run_preannotation_pipeline that structures the candidates into the model
\* already there instead of a fresh one
run_preannotation_pipeline_merging(st, identified_entities, run) ==
    IF run.kind = "unavailable" THEN Out(st, "preannotation_unavailable")
    ELSE IF run.kind = "nlp_error" THEN PreannotationExcept(st)
    ELSE IF run.kind = "cancel_early" THEN Out(st, "preannotation_cancelled")
    ELSE IF identified_entities = <<>> THEN Out(st, "no_entities_found")
    ELSE LET s1 == push_state_to_undo_stack(st, FALSE)
             n == IF run.kind = "complete" THEN Len(identified_entities) ELSE run.at
             acc == StructureLoop([annotations |-> s1.annotations,
                                   current_class_obj |-> 0,
                                   newly_added_spans |-> {}],
                                  identified_entities, n)
             s3 == [s1 EXCEPT !.annotations = acc.annotations]
         IN  IF run.kind = "cancel"
             THEN Out(rebuild_highlights_from_annotations(pop_state_from_undo_stack(s3)),
                      "preannotation_cancelled_structuring")
             ELSE IF run.kind = "error" THEN PreannotationExcept(s3)
             ELSE Out(rebuild_highlights_from_annotations(s3), "preannotation_applied")

\* run.kind: "unavailable" (no NLP model or no text), "nlp_error" (the NLP call
\* raises), "cancel_early" (cancelled before structuring), "cancel" / "error"
\* (cancellation observed / exception raised at loop pass run.at), "complete"
run_preannotation_pipeline(st, identified_entities, run) ==
    IF run.kind = "unavailable" THEN Out(st, "preannotation_unavailable")
    ELSE IF run.kind = "nlp_error" THEN PreannotationExcept(st)
    ELSE IF run.kind = "cancel_early" THEN Out(st, "preannotation_cancelled")
    ELSE IF identified_entities = <<>> THEN Out(st, "no_entities_found")
    ELSE LET s1 == push_state_to_undo_stack(st, FALSE)
             s2 == [s1 EXCEPT !.annotations = EmptyAnnotations,
                              !.highlighted_spans = <<>>]
             n == IF run.kind = "complete" THEN Len(identified_entities) ELSE run.at
             acc == StructureLoop([annotations |-> s2.annotations,
                                   current_class_obj |-> 0,
                                   newly_added_spans |-> {}],
                                  identified_entities, n)
             s3 == [s2 EXCEPT !.annotations = acc.annotations]
         IN  IF run.kind = "cancel"
             THEN Out(rebuild_highlights_from_annotations(pop_state_from_undo_stack(s3)),
                      "preannotation_cancelled_structuring")
             ELSE IF run.kind = "error" THEN PreannotationExcept(s3)
             ELSE Out(rebuild_highlights_from_annotations(s3), "preannotation_applied")

----------------------------------------------------------------------------
(* Inputs *)

\* texts the results panel can hold after an edit: nothing, text json.loads
\* rejects, a JSON array, an object without "relationships", and models
JsonClassUser ==
    [name |-> "User", span |-> List(0, 4),
     attributes |-> <<[name |-> "Book", span |-> List(5, 9), type |-> "String"]>>,
     methods |-> <<>>]
JsonClassSameSpan ==
    [name |-> "Users", span |-> List(0, 4), attributes |-> <<>>, methods |-> <<>>]
JsonClassNoSpan ==
    [name |-> "Book", span |-> None, attributes |-> <<>>, methods |-> <<>>]
JsonClassBook ==
    [name |-> "Book", span |-> List(5, 9), attributes |-> <<>>, methods |-> <<>>]
JsonRelationship ==
    [from_class |-> "User", to_class |-> "Book", type |-> "association",
     from_span |-> List(0, 4), to_span |-> List(5, 9)]

EditedJson ==
    { JsonDoc("blank", <<>>, <<>>),
      JsonDoc("malformed", <<>>, <<>>),
      JsonDoc("not_object", <<>>, <<>>),
      JsonDoc("missing_keys", <<>>, <<>>),
      JsonDoc("model", <<JsonClassUser>>, <<>>),
      JsonDoc("model", <<JsonClassUser, JsonClassSameSpan>>, <<>>),
      JsonDoc("model", <<JsonClassSameSpan, JsonClassBook>>, <<>>),
      JsonDoc("model", <<JsonClassNoSpan>>, <<JsonRelationship>>) }

\* the panel's text as update_results wrote it, saved back unchanged
RenderedJson(ann) ==
    JsonDoc("model", SerializeAnnotations(ann).classes,
            SerializeAnnotations(ann).relationships)

\* candidates the syntactic rules can report
Candidates ==
    { [text |-> "User",  label |-> "CLASS",     start |-> 0, end |-> 4],
      [text |-> "Users", label |-> "ATTRIBUTE", start |-> 0, end |-> 5],
      [text |-> "Book",  label |-> "METHOD",    start |-> 5, end |-> 9] }

\* sorted(results, key=start)
SortedByStart(q) == \A i \in 1..Len(q) - 1 : q[i].start <= q[i + 1].start

CandidateSeqs ==
    { q \in UNION { [1..n -> Candidates] : n \in 0..MaxCands } : SortedByStart(q) }

Run(kind, at) == [kind |-> kind, at |-> at]

Runs(identified_entities) ==
    { Run("complete", 0), Run("unavailable", 0), Run("nlp_error", 0),
      Run("cancel_early", 0) }
    \cup { Run(kind, i) : kind \in {"cancel", "error"},
                          i \in 0..Len(identified_entities) - 1 }

----------------------------------------------------------------------------
(* State machine *)

Init ==
    /\ annotations = EmptyAnnotations
    /\ highlighted_spans = <<>>
    /\ relationship_mode = FALSE
    /\ current_relationship = ""
    /\ relationship_from_class_span = None
    /\ relationship_to_class_span = None
    /\ current_tag = NoTag
    /\ selected_context_class_span = None
    /\ undo_stack = <<[annotations |-> EmptyAnnotations, highlighted_spans |-> <<>>,
                       selected_context_class_span |-> None]>>
    /\ redo_stack = <<>>

\* a handler returned leaving the fields as in s
Commit(s) ==
    /\ Len(s.undo_stack) + Len(s.redo_stack) <= MaxUndo
    /\ annotations' = s.annotations
    /\ highlighted_spans' = s.highlighted_spans
    /\ relationship_mode' = s.relationship_mode
    /\ current_relationship' = s.current_relationship
    /\ relationship_from_class_span' = s.relationship_from_class_span
    /\ relationship_to_class_span' = s.relationship_to_class_span
    /\ current_tag' = s.current_tag
    /\ selected_context_class_span' = s.selected_context_class_span
    /\ undo_stack' = s.undo_stack
    /\ redo_stack' = s.redo_stack

SetTagMode == \E tag \in Tags : Commit(set_tag_mode(St, tag))

SetRelationshipMode ==
    \E relationship_type \in RelTypes :
        Commit(set_relationship_mode(St, relationship_type))

\* wordSelected(word, start, end) -> handle_word_selection
WordClickOn(w) == Commit(handle_word_selection(St, w.word, w.start, w.end))

WordClick == \E w \in Words : WordClickOn(w)

BackgroundClick ==
    Commit(Out(clear_context_class_selection(St), "context_cleared"))

Undo == Commit(undo_annotation(St))

Redo == Commit(redo_annotation(St))

\* textChanged of the results panel -> handle_json_text_change
JsonTextChangeTo(doc) == Commit(handle_json_text_change(St, doc))

JsonTextChange ==
    \E doc \in EditedJson \cup {RenderedJson(annotations)} : JsonTextChangeTo(doc)

ClearAnnotations == Commit(clear_annotations(St, TRUE))

ClearAll == Commit(clear_all_internal(St, FALSE))

LoadText == \E read_ok \in BOOLEAN : Commit(load_text(St, read_ok))

\* the pre-annotate button -> run_preannotation_pipeline
PreAnnotateRun(identified_entities, run) ==
    Commit(run_preannotation_pipeline(St, identified_entities, run))

PreAnnotate ==
    \E identified_entities \in CandidateSeqs :
        \E run \in Runs(identified_entities) :
            PreAnnotateRun(identified_entities, run)

Next ==
    \/ SetTagMode
    \/ SetRelationshipMode
    \/ WordClick
    \/ BackgroundClick
    \/ Undo
    \/ Redo
    \/ JsonTextChange
    \/ ClearAnnotations
    \/ ClearAll
    \/ LoadText
    \/ PreAnnotate

Spec == Init /\ [][Next]_vars

----------------------------------------------------------------------------
(* Manual annotation alone: mode buttons, clicks, undo and redo, followed   *)
(* over a longer history than Spec affords                                  *)

\* the most snapshots (undo and redo together) a manual session may leave
MaxManualUndo == 3
\* the most relationships a manual session is followed to
MaxRels == 1

\* a handler returned leaving the fields as in s
CommitManual(s) ==
    /\ Len(s.undo_stack) + Len(s.redo_stack) <= MaxManualUndo
    /\ Len(s.annotations.relationships) <= MaxRels
    /\ annotations' = s.annotations
    /\ highlighted_spans' = s.highlighted_spans
    /\ relationship_mode' = s.relationship_mode
    /\ current_relationship' = s.current_relationship
    /\ relationship_from_class_span' = s.relationship_from_class_span
    /\ relationship_to_class_span' = s.relationship_to_class_span
    /\ current_tag' = s.current_tag
    /\ selected_context_class_span' = s.selected_context_class_span
    /\ undo_stack' = s.undo_stack
    /\ redo_stack' = s.redo_stack

ManualSetTagMode == \E tag \in Tags : CommitManual(set_tag_mode(St, tag))

ManualSetRelationshipMode ==
    \E relationship_type \in RelTypes :
        CommitManual(set_relationship_mode(St, relationship_type))

ManualWordClickOn(w) ==
    CommitManual(handle_word_selection(St, w.word, w.start, w.end))

ManualWordClick == \E w \in Words : ManualWordClickOn(w)

ManualBackgroundClick ==
    CommitManual(Out(clear_context_class_selection(St), "context_cleared"))

ManualUndo == CommitManual(undo_annotation(St))

ManualRedo == CommitManual(redo_annotation(St))

NextManual ==
    \/ ManualSetTagMode
    \/ ManualSetRelationshipMode
    \/ ManualWordClick
    \/ ManualBackgroundClick
    \/ ManualUndo
    \/ ManualRedo

SpecManual == Init /\ [][NextManual]_vars

----------------------------------------------------------------------------
(* Pre-annotation over a wider choice of candidates, with the JSON panel,   *)
(* undo and redo to vary the model it replaces                              *)

\* the longest candidate list the syntactic rules report here
MaxPreCands == 3

\* what the rules can report on a text of four words, two of them (User,
\* Users) alternatives at the same place
PreCandidates ==
    { [text |-> "User",  label |-> "CLASS",     start |-> 0,  end |-> 4],
      [text |-> "Users", label |-> "CLASS",     start |-> 0,  end |-> 5],
      [text |-> "Users", label |-> "ATTRIBUTE", start |-> 0,  end |-> 5],
      [text |-> "Book",  label |-> "CLASS",     start |-> 5,  end |-> 9],
      [text |-> "Book",  label |-> "ATTRIBUTE", start |-> 5,  end |-> 9],
      [text |-> "Title", label |-> "ATTRIBUTE", start |-> 10, end |-> 15],
      [text |-> "Title", label |-> "METHOD",    start |-> 10, end |-> 15] }

PreCandidateSeqs ==
    { q \in UNION { [1..n -> PreCandidates] : n \in 0..MaxPreCands } : SortedByStart(q) }

\* a run that is neither cancelled nor fails
PreAnnotateWide ==
    \E identified_entities \in PreCandidateSeqs :
        Commit(run_preannotation_pipeline(St, identified_entities, Run("complete", 0)))

NextPre ==
    \/ PreAnnotateWide
    \/ JsonTextChange
    \/ Undo
    \/ Redo

SpecPre == Init /\ [][NextPre]_vars

----------------------------------------------------------------------------
(* Vocabulary of the properties *)

\* the live state a snapshot captures; the span index compared as a dict
Live(st) ==
    [ annotations |-> st.annotations,
      highlighted_spans |-> SeqToSet(st.highlighted_spans),
      selected_context_class_span |-> st.selected_context_class_span ]

RECURSIVE UndoTimes(_, _)
UndoTimes(st, k) == IF k = 0 THEN st ELSE undo_annotation(UndoTimes(st, k - 1))

RECURSIVE RedoTimes(_, _)
RedoTimes(st, k) == IF k = 0 THEN st ELSE redo_annotation(RedoTimes(st, k - 1))

\* a step of a handler other than undo/redo that changes the model
MutatingAction ==
    /\ annotations' # annotations
    /\ \/ WordClick
       \/ JsonTextChange
       \/ ClearAnnotations
       \/ \E q \in CandidateSeqs : PreAnnotateRun(q, Run("complete", 0))

----------------------------------------------------------------------------
(* C1: undo/redo round trip.  Right after a mutating action, k undos        *)
(* (1 <= k <= undo-stack depth - 1) followed by k redos leave the live      *)
(* state (model, span index, context class) equal to the state right after  *)
(* that action.                                                             *)
C1_UndoRedoRoundTrip ==
    [][ MutatingAction =>
          \A k \in 1..(Len(undo_stack') - 1) :
              Live(RedoTimes(UndoTimes(St', k), k)) = Live(St') ]_vars

----------------------------------------------------------------------------
(* C2: the undo stack is never empty, in every reachable state.             *)
C2_UndoStackNonEmpty == undo_stack # <<>>

----------------------------------------------------------------------------
(* C3: whenever an action other than undo/redo changes the model, the redo  *)
(* stack is empty when that action completes.                               *)
C3_RedoClearedOnMutation ==
    [][ MutatingAction => redo_stack' = <<>> ]_vars

----------------------------------------------------------------------------
\* every class, attribute and method of the model, one element per occurrence
EntityOccurrences(ann) ==
    LET cs == ann.classes
    IN  { [c |-> i, m |-> 0, tag |-> "CLASS", span |-> cs[i].span, text |-> cs[i].name] :
            i \in 1..Len(cs) }
        \cup UNION { { [c |-> i, m |-> j, tag |-> "ATTRIBUTE",
                        span |-> cs[i].attributes[j].span,
                        text |-> cs[i].attributes[j].name] :
                          j \in 1..Len(cs[i].attributes) } : i \in 1..Len(cs) }
        \cup UNION { { [c |-> i, m |-> j, tag |-> "METHOD",
                        span |-> cs[i].methods[j].span,
                        text |-> cs[i].methods[j].name] :
                          j \in 1..Len(cs[i].methods) } : i \in 1..Len(cs) }

(* C4: span index / model agreement.  Every key of the span index is the    *)
(* span of exactly one entity of the model, which has the entry's tag and   *)
(* text, and every entity of the model has its span index entry.            *)
C4_IndexModelAgreement ==
    LET occ == EntityOccurrences(annotations)
        hl == highlighted_spans
    IN  /\ \A i \in 1..Len(hl) :
              /\ Cardinality({ o \in occ : o.span = hl[i].span }) = 1
              /\ \E o \in occ : /\ o.span = hl[i].span
                                /\ o.tag = hl[i].tag
                                /\ o.text = hl[i].text
        /\ \A o \in occ :
              \E i \in 1..Len(hl) : /\ hl[i].span = o.span
                                    /\ hl[i].tag = o.tag
                                    /\ hl[i].text = o.text

----------------------------------------------------------------------------
\* the paths of handle_word_selection that abort or do nothing
AbortedClick ==
    {"context_needed", "not_a_class", "self_relationship", "annotation_exists",
     "idle_noop"}

(* C5: a word click that is aborted or is a no-op leaves the undo stack and *)
(* the redo stack as they were before the click.                            *)
C5_AbortLeavesNoHistory ==
    [][ \A w \in Words :
          ( /\ WordClickOn(w)
            /\ handle_word_selection(St, w.word, w.start, w.end).out \in AbortedClick )
          => /\ undo_stack' = undo_stack
             /\ redo_stack' = redo_stack ]_vars

----------------------------------------------------------------------------
(* C6: cancellation observed at any checkpoint of the structuring loop      *)
(* leaves model, span index and context class as they were before the run.  *)
C6_CancelRollsBack ==
    [][ \A q \in CandidateSeqs : \A i \in 0..(Len(q) - 1) :
          PreAnnotateRun(q, Run("cancel", i)) => Live(St') = Live(St) ]_vars

----------------------------------------------------------------------------
(* C7: an error during candidate structuring leaves model and span index   *)
(* as they were immediately before the run.                                 *)
C7_FailClean ==
    [][ \A q \in CandidateSeqs : \A i \in 0..(Len(q) - 1) :
          PreAnnotateRun(q, Run("error", i))
          => /\ annotations' = annotations
             /\ DictEq(highlighted_spans', highlighted_spans) ]_vars

----------------------------------------------------------------------------
\* the character offsets of the words of the text
Offsets == UNION { w.start..(w.end - 1) : w \in Words }

Contains(span, pos) == span.s <= pos /\ pos < span.e

----------------------------------------------------------------------------
\* [start, end) intersects a tagged span without being identical to it
OverlapsTagged(hl, start, end) ==
    \E x \in SeqToSet(hl) : /\ x.span # Tuple(start, end)
                            /\ Max(start, x.span.s) < Min(end, x.span.e)

(* C9: an entity-tagging click whose span overlaps an already tagged span   *)
(* without being identical to it is rejected: model and span index stay as  *)
(* they were.                                                               *)
C9_OverlappingClickRejected ==
    [][ \A w \in Words :
          ( /\ WordClickOn(w)
            /\ current_tag # NoTag /\ ~relationship_mode
            /\ OverlapsTagged(highlighted_spans, w.start, w.end) )
          => /\ annotations' = annotations
             /\ highlighted_spans' = highlighted_spans ]_vars

----------------------------------------------------------------------------
\* the entities of the model with this tag, text and span
Tagged(ann, tag, word, span) ==
    { o \in EntityOccurrences(ann) : o.tag = tag /\ o.text = word /\ o.span = span }

(* C10: idempotent tagging.  In an entity-tagging mode, clicking the same   *)
(* (word, span) twice in a row leaves model and span index after the second *)
(* click equal to those after the first, and a click that added an entity   *)
(* leaves exactly one entity with that tag, name and span.                  *)
C10_IdempotentTagging ==
    (current_tag # NoTag /\ ~relationship_mode) =>
        \A w \in Words :
            LET s1 == handle_word_selection(St, w.word, w.start, w.end)
                s2 == handle_word_selection(s1, w.word, w.start, w.end)
            IN  /\ s2.annotations = s1.annotations
                /\ DictEq(s2.highlighted_spans, s1.highlighted_spans)
                /\ s1.out \in {"class_added", "attribute_added", "method_added"}
                   => Cardinality(Tagged(s2.annotations, current_tag, w.word,
                                         Tuple(w.start, w.end))) = 1

\* an attribute is tagged under the context class and the same click comes again
C10_Witness ==
    /\ current_tag = "ATTRIBUTE" /\ ~relationship_mode
    /\ selected_context_class_span # None
    /\ \E w \in Words :
          /\ Cardinality(Tagged(annotations, "ATTRIBUTE", w.word,
                                Tuple(w.start, w.end))) = 1
          /\ handle_word_selection(St, w.word, w.start, w.end).out = "same_tag_noop"

----------------------------------------------------------------------------
\* the identity of a relationship record
RelTriple(r) == <<r.from_span, r.to_span, r.type>>

NoDuplicateRelationships(rels) ==
    \A i, j \in 1..Len(rels) : i # j => RelTriple(rels[i]) # RelTriple(rels[j])

\* the relationship clicks that reach add_relationship
CommittingClick == {"relationship_exists", "relationship_added"}

(* C11: no duplicate relationships.  In every state of a manual session no  *)
(* two relationship records share (from_span, to_span, type); a second      *)
(* click that commits a triple already present leaves the relationships     *)
(* list unchanged, and one that commits a triple not present (the same span *)
(* pair with another type or the other direction included) appends exactly  *)
(* that record.                                                             *)
C11_NoDuplicateRelationships ==
    /\ NoDuplicateRelationships(annotations.relationships)
    /\ (relationship_mode /\ relationship_from_class_span # None) =>
          \A w \in Words :
              LET s == handle_word_selection(St, w.word, w.start, w.end)
                  hit == _get_highlighted_entity_at_pos(highlighted_spans, w.start)
                  rels == annotations.relationships
                  new == s.annotations.relationships
                  t == <<relationship_from_class_span, hit.span, current_relationship>>
              IN  s.out \in CommittingClick =>
                    /\ NoDuplicateRelationships(new)
                    /\ IF \E i \in 1..Len(rels) : RelTriple(rels[i]) = t
                       THEN new = rels
                       ELSE /\ Len(new) = Len(rels) + 1
                            /\ SubSeq(new, 1, Len(rels)) = rels
                            /\ RelTriple(new[Len(new)]) = t

\* the from-slot is set and a click commits a triple that is already there,
\* while the reversed triple is not
C11_Witness ==
    /\ relationship_mode /\ relationship_from_class_span # None
    /\ \E w \in Words :
          /\ handle_word_selection(St, w.word, w.start, w.end).out = "relationship_exists"
          /\ \A i \in 1..Len(annotations.relationships) :
                annotations.relationships[i].from_span = relationship_from_class_span

----------------------------------------------------------------------------
(* C12: self-relationship rejection at the model operation.  add_relationship *)
(* called with from_span = to_span, for any name and any type, leaves the   *)
(* model as it was.                                                         *)
C12_SelfRelationshipRejected ==
    \A w \in Words : \A rel_type \in RelTypes :
        LET span == Tuple(w.start, w.end)
        IN  add_relationship(St, w.word, w.word, rel_type, span, span).annotations
                = annotations

----------------------------------------------------------------------------
\* the word is tagged as a class: the model holds a class of that name at
\* that span and the span index marks the span CLASS
TaggedClass(w) ==
    LET span == Tuple(w.start, w.end)
        i == _get_class_by_span(annotations, span)
    IN  /\ i # 0
        /\ annotations.classes[i].name = w.word
        /\ KeyIndex(highlighted_spans, span) # 0
        /\ DictGet(highlighted_spans, span).tag = "CLASS"

(* C13: two-click relationship protocol.  In relationship mode of type T    *)
(* with the from-slot empty, a click on tagged class A then a click on a    *)
(* different tagged class B appends exactly the record (A.name, B.name, T,  *)
(* A.span, B.span) unless that triple is already there, leaves both slots   *)
(* empty, and the first click leaves the number of relationships unchanged. *)
C13_TwoClickProtocol ==
    (relationship_mode /\ relationship_from_class_span = None) =>
        \A a, b \in Words :
            (TaggedClass(a) /\ TaggedClass(b) /\ a # b) =>
                LET s1 == handle_word_selection(St, a.word, a.start, a.end)
                    s2 == handle_word_selection(s1, b.word, b.start, b.end)
                    rels == annotations.relationships
                    from_span == Tuple(a.start, a.end)
                    to_span == Tuple(b.start, b.end)
                    t == <<from_span, to_span, current_relationship>>
                IN  /\ Len(s1.annotations.relationships) = Len(rels)
                    /\ s2.relationship_from_class_span = None
                    /\ s2.relationship_to_class_span = None
                    /\ s2.annotations.relationships =
                          IF \E i \in 1..Len(rels) : RelTriple(rels[i]) = t
                          THEN rels
                          ELSE Append(rels, NewRelationship(a.word, b.word,
                                                current_relationship, from_span, to_span))

----------------------------------------------------------------------------
(* C14: NoContextClass abort.  A word click in ATTRIBUTE or METHOD mode     *)
(* while no context class is selected leaves the model and the span index   *)
(* unchanged and reverts the tag selection to Idle.                         *)
C14_NoContextAbort ==
    (current_tag \in {"ATTRIBUTE", "METHOD"} /\ selected_context_class_span = None) =>
        \A w \in Words :
            LET s == handle_word_selection(St, w.word, w.start, w.end)
            IN  /\ s.annotations = annotations
                /\ s.highlighted_spans = highlighted_spans
                /\ s.current_tag = NoTag
                /\ s.out = "context_needed"

\* the click is aborted although the model holds a class
C14_Witness ==
    /\ current_tag \in {"ATTRIBUTE", "METHOD"}
    /\ selected_context_class_span = None
    /\ annotations.classes # <<>>
    /\ \E w \in Words :
          handle_word_selection(St, w.word, w.start, w.end).out = "context_needed"

----------------------------------------------------------------------------
(* C15: baseline indestructibility.  Undo invoked while the undo stack      *)
(* holds one snapshot leaves model, span index, context class, undo stack   *)
(* and redo stack unchanged and reports that there is nothing to undo.      *)
C15_BaselineIndestructible ==
    Len(undo_stack) = 1 =>
        LET s == undo_annotation(St)
        IN  /\ s.annotations = annotations
            /\ s.highlighted_spans = highlighted_spans
            /\ s.selected_context_class_span = selected_context_class_span
            /\ s.undo_stack = undo_stack
            /\ s.redo_stack = redo_stack
            /\ s.out = "nothing_to_undo"

\* one snapshot is left and the live model is not the one it holds
C15_Witness ==
    /\ Len(undo_stack) = 1
    /\ annotations # undo_stack[1].annotations
    /\ undo_annotation(St).out = "nothing_to_undo"

----------------------------------------------------------------------------
(* C16: JSON round trip.  For every model reached by tagging, the text that *)
(* update_results writes (spans as 2-element arrays), parsed back by        *)
(* handle_json_text_change (arrays to tuples), gives a live model equal to  *)
(* the original, spans of classes, attributes, methods and relationships    *)
(* included, and a span index equal to the original's.                      *)
C16_JsonRoundTrip ==
    LET s == handle_json_text_change(St, RenderedJson(annotations))
    IN  /\ s.out = "json_synced"
        /\ s.annotations = annotations
        /\ DictEq(s.highlighted_spans, highlighted_spans)

\* a model with a class that owns a member, and a relationship
C16_Witness ==
    /\ annotations.relationships # <<>>
    /\ \E i \in 1..Len(annotations.classes) :
          annotations.classes[i].attributes # <<>> \/ annotations.classes[i].methods # <<>>
    /\ SerializeAnnotations(annotations) # annotations
    /\ handle_json_text_change(St, RenderedJson(annotations)).annotations = annotations

----------------------------------------------------------------------------
\* the texts the sync-back rejects: malformed JSON, a top-level value that is
\* not an object, an object without "classes" or "relationships"
RejectedJson ==
    { JsonDoc(shape, <<>>, <<>>) : shape \in {"malformed", "not_object", "missing_keys"} }

(* C17: a rejected JSON sync leaves model, span index, context class, undo  *)
(* stack and redo stack unchanged: no snapshot is taken.                    *)
C17_RejectedJsonUntouched ==
    \A doc \in RejectedJson :
        LET s == handle_json_text_change(St, doc)
        IN  /\ s.out \in {"json_invalid", "json_invalid_structure"}
            /\ s.annotations = annotations
            /\ s.highlighted_spans = highlighted_spans
            /\ s.selected_context_class_span = selected_context_class_span
            /\ s.undo_stack = undo_stack
            /\ s.redo_stack = redo_stack

\* a state in which an accepted sync would take a snapshot and clear the
\* redo stack
C17_Witness ==
    /\ redo_stack # <<>>
    /\ undo_stack # <<>>
    /\ ~SameAsTop(St)
    /\ \A doc \in RejectedJson : handle_json_text_change(St, doc).undo_stack = undo_stack

----------------------------------------------------------------------------
SpansOverlap(a, b) == Max(a.s, b.s) < Min(a.e, b.e)

CandidateSpan(entity) == Tuple(entity.start, entity.end)

\* the structuring loop's variables before the first pass
LoopStart ==
    [annotations |-> EmptyAnnotations, current_class_obj |-> 0, newly_added_spans |-> {}]

\* pass i of the structuring loop put candidate i into the model
Accepted(q, i) ==
    StructureLoop(LoopStart, q, i).annotations
        # StructureLoop(LoopStart, q, i - 1).annotations

Completed(q) == run_preannotation_pipeline(St, q, Run("complete", 0))

(* C18: pre-annotation overlap policy.  For every start-ordered candidate   *)
(* sequence, the entities of the model a completed run produces have        *)
(* pairwise non-overlapping spans, a candidate is accepted only if its span *)
(* neither equals nor overlaps the span of an earlier accepted candidate,   *)
(* and of (User, CLASS, 0, 4), (Users, ATTRIBUTE, 0, 5) only the class      *)
(* survives.                                                                *)
C18_OverlapPolicy ==
    /\ \A q \in PreCandidateSeqs :
          LET s == Completed(q)
              occ == EntityOccurrences(s.annotations)
          IN  s.out = "preannotation_applied" =>
                /\ \A o1, o2 \in occ : o1 # o2 => ~SpansOverlap(o1.span, o2.span)
                /\ \A i \in 1..Len(q) : \A j \in 1..(i - 1) :
                      (Accepted(q, i) /\ Accepted(q, j))
                          => ~SpansOverlap(CandidateSpan(q[i]), CandidateSpan(q[j]))
    /\ Completed(<< [text |-> "User",  label |-> "CLASS",     start |-> 0, end |-> 4],
                    [text |-> "Users", label |-> "ATTRIBUTE", start |-> 0, end |-> 5] >>
                ).annotations
          = [classes |-> <<NewClass("User", Tuple(0, 4))>>, relationships |-> <<>>]

\* over a model already there, a run in which a candidate is skipped because
\* it overlaps an accepted one
C18_Witness ==
    /\ annotations.classes # <<>>
    /\ \E q \in PreCandidateSeqs :
          /\ Completed(q).out = "preannotation_applied"
          /\ \E i \in 1..Len(q) : \E j \in 1..(i - 1) :
                /\ Accepted(q, j)
                /\ CandidateSpan(q[i]) # CandidateSpan(q[j])
                /\ SpansOverlap(CandidateSpan(q[i]), CandidateSpan(q[j]))
                /\ ~Accepted(q, i)

----------------------------------------------------------------------------
\* the entity is built from one of the candidates
FromCandidate(o, q) ==
    \E i \in 1..Len(q) : /\ q[i].text = o.text
                          /\ q[i].label = o.tag
                          /\ CandidateSpan(q[i]) = o.span

\* the live model after the run holds only entities built from the
\* candidates, holds no relationship, and is the model the candidates alone
\* determine
ReplacedBy(q) ==
    LET s == Completed(q)
    IN  /\ \A o \in EntityOccurrences(s.annotations) : FromCandidate(o, q)
        /\ s.annotations.relationships = <<>>
        /\ s.annotations = StructureLoop(LoopStart, q, Len(q)).annotations

(* C19: pre-annotation is a full replace.  For every candidate sequence,    *)
(* the empty one included, and every prior model, after a completed run the *)
(* live model holds only entities built from the run's candidates and no    *)
(* relationship, and depends on the candidates alone.                       *)
C19_FullReplace == \A q \in PreCandidateSeqs : ReplacedBy(q)

(* C19 as amended: the same for every non-empty candidate sequence; on an   *)
(* empty one the run reports that nothing was found and leaves the model as *)
(* it was.                                                                  *)
C19_FullReplaceNonEmpty ==
    /\ \A q \in PreCandidateSeqs : q # <<>> => ReplacedBy(q)
    /\ LET s == Completed(<<>>)
       IN  s.out = "no_entities_found" /\ s.annotations = annotations

\* the model to be replaced holds a class and a relationship
C19_Witness ==
    /\ annotations.classes # <<>>
    /\ annotations.relationships # <<>>
    /\ \E q \in PreCandidateSeqs :
          /\ Completed(q).out = "preannotation_applied"
          /\ Completed(q).annotations.classes # <<>>
          /\ Completed(q).annotations.relationships = <<>>

----------------------------------------------------------------------------
\* the entities of the model built from candidate c
BuiltFrom(ann, c) ==
    { o \in EntityOccurrences(ann) :
        o.text = c.text /\ o.tag = c.label /\ o.span = CandidateSpan(c) }

\* candidate c is in the model, under the class built from candidate k and
\* under no other
AttachedTo(ann, c, k) ==
    /\ BuiltFrom(ann, c) # {}
    /\ \A o \in BuiltFrom(ann, c) :
          /\ ann.classes[o.c].name = k.text
          /\ ann.classes[o.c].span = CandidateSpan(k)

Last(S) == IF S = {} THEN 0 ELSE CHOOSE j \in S : \A k \in S : k <= j

\* the position of the most recent CLASS candidate before position i, 0 for none
LastClassBefore(q, i) == Last({ j \in 1..(i - 1) : q[j].label = "CLASS" })

\* the same among the CLASS candidates the loop accepted
LastAcceptedClassBefore(q, i) ==
    Last({ j \in 1..(i - 1) : q[j].label = "CLASS" /\ Accepted(q, j) })

(* C20: pre-annotation ownership.  In the model a completed run produces,   *)
(* every accepted ATTRIBUTE/METHOD candidate is attached to the class built *)
(* from the most recent CLASS candidate before it in the input, and every   *)
(* ATTRIBUTE/METHOD candidate that precedes all CLASS candidates is nowhere *)
(* in the model.                                                            *)
C20_Ownership ==
    [][ \A q \in PreCandidateSeqs :
          (q # <<>> /\ Commit(Completed(q))) =>
              \A i \in 1..Len(q) :
                  q[i].label # "CLASS" =>
                      LET j == LastClassBefore(q, i)
                      IN  /\ Accepted(q, i) => (j # 0 /\ AttachedTo(annotations', q[i], q[j]))
                          /\ j = 0 => BuiltFrom(annotations', q[i]) = {} ]_vars

(* C20 as amended: the owner is the class built from the most recent CLASS  *)
(* candidate before it that the loop accepted (a CLASS candidate skipped    *)
(* for its span does not become the owner); a candidate with no CLASS       *)
(* candidate before it is nowhere in the model.                             *)
C20_OwnershipAccepted ==
    \A q \in PreCandidateSeqs : \A i \in 1..Len(q) :
        q[i].label # "CLASS" =>
            LET ann == Completed(q).annotations
                j == LastAcceptedClassBefore(q, i)
            IN  /\ Accepted(q, i) => (j # 0 /\ AttachedTo(ann, q[i], q[j]))
                /\ LastClassBefore(q, i) = 0 => BuiltFrom(ann, q[i]) = {}

\* the live model comes from a run in which a member follows two accepted
\* classes and is owned by the second
C20_Witness ==
    \E q \in PreCandidateSeqs :
        /\ Len(q) = 3
        /\ q[1].label = "CLASS" /\ Accepted(q, 1)
        /\ q[2].label = "CLASS" /\ Accepted(q, 2)
        /\ q[3].label # "CLASS" /\ Accepted(q, 3)
        /\ annotations = StructureLoop(LoopStart, q, 3).annotations
        /\ AttachedTo(annotations, q[3], q[2])

----------------------------------------------------------------------------
\* the spans of the classes of the model
ClassSpans(ann) == { ann.classes[i].span : i \in 1..Len(ann.classes) }

\* the attributes and methods of the model, one element per occurrence
Members(ann) == { o \in EntityOccurrences(ann) : o.tag # "CLASS" }

(* C21: referential integrity.  After any operation, every relationship's   *)
(* from_span and to_span is the span of a class of the model, and every     *)
(* attribute or method is nested under exactly one class.                   *)
C21_ReferentialIntegrity ==
    /\ \A i \in 1..Len(annotations.relationships) :
          /\ annotations.relationships[i].from_span \in ClassSpans(annotations)
          /\ annotations.relationships[i].to_span \in ClassSpans(annotations)
    /\ \A m \in Members(annotations) :
          Cardinality({ o \in Members(annotations) :
                          o.span = m.span /\ o.tag = m.tag /\ o.text = m.text }) = 1

----------------------------------------------------------------------------
(* C22: the tagging modes are mutually exclusive.  In every reachable state *)
(* current_tag is not set while relationship_mode is true and the from-slot *)
(* is set only while relationship_mode is true; set_tag_mode leaves         *)
(* relationship_mode false and the from-slot empty, set_relationship_mode   *)
(* leaves current_tag unset and the from-slot empty.                        *)
C22_ModesExclusive ==
    /\ ~(current_tag # NoTag /\ relationship_mode)
    /\ relationship_from_class_span # None => relationship_mode
    /\ \A tag \in Tags :
          LET s == set_tag_mode(St, tag)
          IN  /\ s.current_tag = tag
              /\ ~s.relationship_mode
              /\ s.relationship_from_class_span = None
    /\ \A relationship_type \in RelTypes :
          LET s == set_relationship_mode(St, relationship_type)
          IN  /\ s.relationship_mode
              /\ s.current_tag = NoTag
              /\ s.relationship_from_class_span = None

\* a from-class is selected, which a mode selection has to drop
C22_Witness ==
    /\ relationship_mode
    /\ relationship_from_class_span # None
    /\ \A tag \in Tags : set_tag_mode(St, tag).relationship_from_class_span = None

----------------------------------------------------------------------------
\* in model `after` the word is an attribute or method (by tag) of a class
\* whose span is ctx, and `after` differs from `before` in nothing but that
\* member: it was appended, or the class already held a member at that span
AttachedUnderContext(before, after, ctx, tag, w) ==
    \E p \in 1..Len(before.classes) :
        /\ before.classes[p].span = ctx
        /\ IF tag = "ATTRIBUTE"
           THEN \/ after = [before EXCEPT !.classes[p].attributes =
                              Append(@, NewAttribute(w.word, Tuple(w.start, w.end)))]
                \/ /\ after = before
                   /\ HasSpan(before.classes[p].attributes, Tuple(w.start, w.end))
           ELSE \/ after = [before EXCEPT !.classes[p].methods =
                              Append(@, NewMethod(w.word, Tuple(w.start, w.end)))]
                \/ /\ after = before
                   /\ HasSpan(before.classes[p].methods, Tuple(w.start, w.end))

(* C23: mode selection and the context class.  set_tag_mode(ATTRIBUTE) or   *)
(* set_tag_mode(METHOD) with a context class selected leaves it selected,   *)
(* and after the next click on an untagged word that word is an attribute   *)
(* or method of the class whose span is the context span, no other class    *)
(* having changed;                                                          *)
(* set_tag_mode(CLASS) and set_relationship_mode drop the context class; no *)
(* mode selection changes the model or the span index.                      *)
C23_ModeSelectionAndContext ==
    /\ \A tag \in Tags :
          LET s == set_tag_mode(St, tag)
              ctx == selected_context_class_span
          IN  /\ s.annotations = annotations
              /\ s.highlighted_spans = highlighted_spans
              /\ tag = "CLASS" => s.selected_context_class_span = None
              /\ (tag # "CLASS" /\ ctx # None) =>
                    /\ s.selected_context_class_span = ctx
                    /\ \A w \in Words :
                          KeyIndex(highlighted_spans, Tuple(w.start, w.end)) = 0 =>
                              AttachedUnderContext(annotations,
                                  handle_word_selection(s, w.word, w.start, w.end).annotations,
                                  ctx, tag, w)
    /\ \A relationship_type \in RelTypes :
          LET s == set_relationship_mode(St, relationship_type)
          IN  /\ s.annotations = annotations
              /\ s.highlighted_spans = highlighted_spans
              /\ s.selected_context_class_span = None

\* a context class is selected, the model holds another class, and a word is
\* still untagged
C23_Witness ==
    /\ selected_context_class_span # None
    /\ Len(annotations.classes) > 1
    /\ \E w \in Words :
          /\ KeyIndex(highlighted_spans, Tuple(w.start, w.end)) = 0
          /\ handle_word_selection(set_tag_mode(St, "METHOD"), w.word, w.start, w.end).out
                = "method_added"

----------------------------------------------------------------------------
(* C24: context selection.  In Idle (no tag mode, no relationship mode) a   *)
(* click on a word tagged CLASS sets the context span to that class's       *)
(* stored span and leaves the model, the span index and the mode flags      *)
(* unchanged; in an active tag or relationship mode the same click never    *)
(* changes the context span.                                                *)
C24_ContextSelection ==
    \A w \in Words :
        TaggedClass(w) =>
            LET s == handle_word_selection(St, w.word, w.start, w.end)
            IN  IF current_tag = NoTag /\ ~relationship_mode
                THEN /\ s.selected_context_class_span = Tuple(w.start, w.end)
                     /\ s.annotations = annotations
                     /\ s.highlighted_spans = highlighted_spans
                     /\ s.current_tag = NoTag
                     /\ ~s.relationship_mode
                ELSE s.selected_context_class_span = selected_context_class_span

----------------------------------------------------------------------------
\* the click on word w in relationship mode is one the handler refuses: the
\* lookup finds no entry tagged CLASS, or finds the class of the from-slot
RefusedRelationshipClick(st, w) ==
    LET hit == _get_highlighted_entity_at_pos(st.highlighted_spans, w.start)
    IN  \/ hit.tag # "CLASS"
        \/ /\ st.relationship_from_class_span # None
           /\ hit.span = st.relationship_from_class_span

----------------------------------------------------------------------------
(* C26: different-tag conflict.  An entity-tagging click on a span that the *)
(* span index already holds with another tag or another text leaves the     *)
(* model and the span index unchanged (the text of the click ranges over    *)
(* the words, so that it can differ from the text the index holds).         *)
C26_ConflictLeavesModel ==
    (current_tag # NoTag /\ ~relationship_mode) =>
        \A w \in Words, word \in { v.word : v \in Words } :
            SpanConflict(highlighted_spans, Tuple(w.start, w.end), word, current_tag) = 2 =>
                LET s == handle_word_selection(St, word, w.start, w.end)
                IN  /\ s.annotations = annotations
                    /\ s.highlighted_spans = highlighted_spans

\* with a context class selected, a click in METHOD mode on a word tagged
\* ATTRIBUTE is refused by add_entity
C26_Witness ==
    /\ current_tag = "METHOD"
    /\ ~relationship_mode
    /\ selected_context_class_span # None
    /\ \E w \in Words :
          /\ KeyIndex(highlighted_spans, Tuple(w.start, w.end)) # 0
          /\ DictGet(highlighted_spans, Tuple(w.start, w.end)).tag = "ATTRIBUTE"
          /\ handle_word_selection(St, w.word, w.start, w.end).out = "annotation_exists"

----------------------------------------------------------------------------
\* the live state of s is the snapshot on top of its undo stack
LiveIsTop(s) ==
    /\ s.undo_stack # <<>>
    /\ Live(s) = Live(s.undo_stack[Len(s.undo_stack)])

\* from prev to s the top of the undo stack moved to the redo stack
UndoMoved(prev, s) ==
    LET n == Len(prev.undo_stack)
    IN  /\ n > 0
        /\ s.undo_stack = SubSeq(prev.undo_stack, 1, n - 1)
        /\ s.redo_stack = Append(prev.redo_stack, prev.undo_stack[n])

\* from prev to s the top of the redo stack moved to the undo stack
RedoMoved(prev, s) ==
    LET n == Len(prev.redo_stack)
    IN  /\ n > 0
        /\ s.redo_stack = SubSeq(prev.redo_stack, 1, n - 1)
        /\ s.undo_stack = Append(prev.undo_stack, prev.redo_stack[n])

(* C27: undo terminates.  From every state, consecutive undos restore at    *)
(* most (undo-stack depth - 1) times; each restoration moves one snapshot   *)
(* from the undo stack to the redo stack and sets the live state to the new *)
(* top of the undo stack; every further undo reports nothing to undo and    *)
(* changes nothing.  Each effective redo moves one snapshot back and sets   *)
(* the live state to it; redo on an empty redo stack changes nothing.       *)
C27_UndoTerminates ==
    /\ \A k \in 1..(MaxUndo + 1) :
          LET prev == UndoTimes(St, k - 1)
              s == UndoTimes(St, k)
          IN  IF k <= Len(undo_stack) - 1
              THEN /\ s.out = "undo_successful"
                   /\ UndoMoved(prev, s)
                   /\ LiveIsTop(s)
              ELSE /\ s.out = "nothing_to_undo"
                   /\ s = Out(prev, "nothing_to_undo")
    /\ LET s == redo_annotation(St)
       IN  IF redo_stack # <<>>
           THEN /\ s.out = "redo_successful"
                /\ RedoMoved(St, s)
                /\ LiveIsTop(s)
           ELSE s = Out(St, "nothing_to_redo")

----------------------------------------------------------------------------
(* C28: every committed mutation is undoable.  Right after an action that   *)
(* changed the model (a click that added an entity or a relationship,       *)
(* clear-annotations, a JSON sync, a completed pre-annotation run), one     *)
(* undo restores the model and the span index to their values just before   *)
(* that action, the first mutation after the baseline included.             *)
C28_MutationUndoable ==
    [][ MutatingAction =>
          LET s == undo_annotation(St')
          IN  /\ s.annotations = annotations
              /\ DictEq(s.highlighted_spans, highlighted_spans) ]_vars

----------------------------------------------------------------------------
(* C29: the context class is never dangling.  In every state the context    *)
(* span is null or is the span of a class of the live model that the span   *)
(* index holds with tag CLASS.                                              *)
C29_ContextNeverDangling ==
    selected_context_class_span # None =>
        ContextStillValid(annotations, highlighted_spans, selected_context_class_span)

(* C30: the from-slot is never dangling.  In every state the from-slot of   *)
(* relationship mode is null or the span of a class of the live model.      *)
C30_FromSlotNeverDangling ==
    relationship_from_class_span # None =>
        relationship_from_class_span \in ClassSpans(annotations)

----------------------------------------------------------------------------
\* the tagging state machine of st is Idle
Idle(st) ==
    /\ st.current_tag = NoTag
    /\ ~st.relationship_mode
    /\ st.relationship_from_class_span = None

\* s has the tag mode, relationship mode, from-slot and context class of st
SameMode(st, s) ==
    /\ s.current_tag = st.current_tag
    /\ s.relationship_mode = st.relationship_mode
    /\ s.current_relationship = st.current_relationship
    /\ s.relationship_from_class_span = st.relationship_from_class_span
    /\ s.selected_context_class_span = st.selected_context_class_span

(* C31: undo and redo reset the tagging state machine.  An undo or redo     *)
(* that restores a snapshot leaves the machine Idle (no tag, no             *)
(* relationship mode, empty from-slot) whatever the mode before, with the   *)
(* context class stored in the restored snapshot; an undo or redo with      *)
(* nothing to restore leaves the mode as it was.                            *)
C31_UndoRedoResetMode ==
    /\ LET s == undo_annotation(St)
       IN  IF Len(undo_stack) > 1
           THEN /\ s.out = "undo_successful"
                /\ Idle(s)
                /\ s.selected_context_class_span =
                      undo_stack[Len(undo_stack) - 1].selected_context_class_span
           ELSE /\ s.out = "nothing_to_undo"
                /\ SameMode(St, s)
    /\ LET s == redo_annotation(St)
       IN  IF redo_stack # <<>>
           THEN /\ s.out = "redo_successful"
                /\ Idle(s)
                /\ s.selected_context_class_span =
                      redo_stack[Len(redo_stack)].selected_context_class_span
           ELSE /\ s.out = "nothing_to_redo"
                /\ SameMode(St, s)

\* a tag mode is active and the snapshot an undo restores stores a context
\* class, which the undo brings back
C31_Witness ==
    /\ current_tag # NoTag
    /\ Len(undo_stack) > 1
    /\ undo_stack[Len(undo_stack) - 1].selected_context_class_span # None
    /\ undo_annotation(St).selected_context_class_span # None

----------------------------------------------------------------------------
(* C32: a new baseline is the floor of history.  Right after load_text or   *)
(* clear_all, no run of undos and no run of redos restores a model that     *)
(* holds an entity or a relationship: every state they reach has the empty  *)
(* model of the new baseline.                                               *)
C32_BaselineIsFloor ==
    [][ (LoadText \/ ClearAll) =>
          \A k \in 0..(MaxUndo + 1) :
              /\ UndoTimes(St', k).annotations = EmptyAnnotations
              /\ RedoTimes(St', k).annotations = EmptyAnnotations ]_vars

====
